---- MODULE Spec2Model ----
(***************************************************************************)
(* Model of EEGPlotter (src/eeg_plotter.py): the metadata/header scan and  *)
(* column filtering of parse_eeg_csv, categorize_channels, the layout      *)
(* built by create_interactive_plot, and the selection callback            *)
(* update_output registered by create_dash_app.                            *)
(*                                                                         *)
(* Text is modelled by TLA+ strings, which TLC treats as sequences of      *)
(* characters (Len, SubSeq and \o apply to them), so the substring,        *)
(* prefix, split and replace tests of the code are computed on the         *)
(* characters and not assumed.                                             *)
(***************************************************************************)
EXTENDS Integers, Sequences, FiniteSets, TLC

(***************************************************************************)
(* Bounds of the model.                                                    *)
(***************************************************************************)
MaxPre == 1        \* lines before the generated header line
MaxPost == 1       \* lines after the generated header line
MaxCols == 2       \* non-Time columns of the generated header line
MaxCap == 2        \* largest integer max_channels passed by a caller
MaxCalls == 2      \* selection callbacks observed after the app is created

(***************************************************************************)
(* Program constants.                                                      *)
(***************************************************************************)
DefaultSampleRate == 200
DefaultMaxChannels == 30
PaletteLen == 17
PanelHeight == 150
HeightMargin == 100

None == [none |-> TRUE]

(***************************************************************************)
(* Python string primitives used by the code.                              *)
(***************************************************************************)
Whitespace == {" ", "\t", "\n", "\r"}

Char(s, i) == SubSeq(s, i, i)

RECURSIVE LStrip(_)
LStrip(s) ==
    IF Len(s) > 0 /\ Char(s, 1) \in Whitespace
    THEN LStrip(SubSeq(s, 2, Len(s)))
    ELSE s

RECURSIVE RStrip(_)
RStrip(s) ==
    IF Len(s) > 0 /\ Char(s, Len(s)) \in Whitespace
    THEN RStrip(SubSeq(s, 1, Len(s) - 1))
    ELSE s

\* str.strip()
Strip(s) == RStrip(LStrip(s))

\* str.startswith(p)
StartsWith(s, p) == Len(s) >= Len(p) /\ SubSeq(s, 1, Len(p)) = p

\* sub in s
Contains(sub, s) ==
    \E i \in 1..(Len(s) - Len(sub) + 1) : SubSeq(s, i, i + Len(sub) - 1) = sub

\* str.split(sep) for a one-character separator: always at least one field
RECURSIVE SplitFrom(_, _, _)
SplitFrom(s, sep, cur) ==
    IF Len(s) = 0 THEN <<cur>>
    ELSE IF Char(s, 1) = sep
         THEN <<cur>> \o SplitFrom(SubSeq(s, 2, Len(s)), sep, "")
         ELSE SplitFrom(SubSeq(s, 2, Len(s)), sep, cur \o Char(s, 1))

Split(s, sep) == SplitFrom(s, sep, "")

\* str.replace(old, new): leftmost, non-overlapping occurrences
RECURSIVE Replace(_, _, _)
Replace(s, old, new) ==
    IF Len(s) = 0 THEN ""
    ELSE IF StartsWith(s, old)
         THEN new \o Replace(SubSeq(s, Len(old) + 1, Len(s)), old, new)
         ELSE Char(s, 1) \o Replace(SubSeq(s, 2, Len(s)), old, new)

Digits == <<"0", "1", "2", "3", "4", "5", "6", "7", "8", "9">>

IsDigit(c) == \E d \in 1..10 : Digits[d] = c

DigitVal(c) == (CHOOSE d \in 1..10 : Digits[d] = c) - 1

RECURSIVE DigitsVal(_, _)
DigitsVal(s, acc) ==
    IF Len(s) = 0 THEN acc
    ELSE DigitsVal(SubSeq(s, 2, Len(s)), 10 * acc + DigitVal(Char(s, 1)))

NotAFloat == -1

\* float(s): surrounding whitespace is ignored; a non-empty run of decimal
\* digits is its value; every other text of the line universe below (letters,
\* punctuation, the empty string) raises ValueError, modelled by NotAFloat.
\* The universe holds no signed, fractional, exponent, inf or nan spelling.
Float(s) ==
    LET t == Strip(s)
    IN  IF Len(t) > 0 /\ \A i \in 1..Len(t) : IsDigit(Char(t, i))
        THEN DigitsVal(t, 0)
        ELSE NotAFloat

RECURSIVE Join(_, _)
Join(fields, sep) ==
    IF Len(fields) = 0 THEN ""
    ELSE IF Len(fields) = 1 THEN fields[1]
         ELSE fields[1] \o sep \o Join(Tail(fields), sep)

SeqsUpTo(S, n) == UNION {[1..k -> S] : k \in 0..n}

(***************************************************************************)
(* The input file.  A file is a sequence of lines (without their line      *)
(* terminators): up to MaxPre lines of PreambleLines, optionally one       *)
(* header line generated from up to MaxCols column names of ColumnNames,   *)
(* then up to MaxPost lines of BodyLines.  PreambleLines holds header-like *)
(* lines too, so a generated header is not always the first match.         *)
(***************************************************************************)
SampleLabel == "Sample_Frequency_(Hz)"

\* a label line without a second field that also begins with "Time" but is
\* no header; a well-formed rate line; a tab-delimited header carrying a
\* rate; an indented comma-delimited header with columns of every kind
PreambleLines ==
    { "Time Sample_Frequency_(Hz)",
      "Sample_Frequency_(Hz),256",
      "Time\tC1,512,Sample_Frequency_(Hz)",
      " Time,CM_ref,X1_LEOG,CMF,Fp1:A,,X2_REOG_CM,**,Comments,Fz" }

\* a row that matches the header test and holds the label with a non-numeric
\* second field; a row that holds the label with a numeric second field
BodyLines ==
    { "Time,Sample_Frequency_(Hz),7",
      "0,999,Sample_Frequency_(Hz)" }

ColumnNames ==
    { "C1", "Trigger", "X3_AUX" }

HeaderLine(cols) == Join(<<"Time">> \o cols, ",")

Files ==
    { pre \o mid \o post :
        pre \in SeqsUpTo(PreambleLines, MaxPre),
        mid \in {<<>>} \cup { <<HeaderLine(cols)>> : cols \in SeqsUpTo(ColumnNames, MaxCols) },
        post \in SeqsUpTo(BodyLines, MaxPost) }

VARIABLES
    pc,               \* "constructed", "parsed", "failed", "app"
    lines,            \* content of csv_file, as read by readlines()
    data,             \* self.data
    channels,         \* self.channels
    sample_rate,      \* self.sample_rate
    metadata,         \* the dict parse_eeg_csv builds, as a set of <<key, value>>
    header_line_idx,  \* the local of parse_eeg_csv after its scan
    skiprows,         \* the skiprows argument of the read_csv call, -1 before it
    raised,           \* exception raised by the last operation, "" if none
    plot,             \* figure returned by the last direct create_interactive_plot
    app,              \* the Dash app of create_dash_app and the figure it holds
    builds,           \* figures built by create_dash_app
    output,           \* children of "selection-output" set by the last callback
    calls,            \* callbacks dispatched by the host
    op,               \* the last operation: "init", "parse", "plot", "app", "callback"
    max_channels,     \* argument of the last create_interactive_plot call
    selected_data     \* selectedData event of the last callback

vars == <<pc, lines, data, channels, sample_rate, metadata, header_line_idx,
          skiprows, raised, plot, app, builds, output, calls, op, max_channels,
          selected_data>>

(***************************************************************************)
(* parse_eeg_csv: the scan for the sample rate and the header line.        *)
(***************************************************************************)
\* variant: the header test without the delimiter after "Time"
IsHeader_NoDelimiter(line) == StartsWith(line, "Time")

IsHeader(line) == StartsWith(line, "Time,") \/ StartsWith(line, "Time\t")

\* variant: the except branch falls back to the default rate
SampleRateAfter_ResetOnError(line, sr) ==
    IF Contains(SampleLabel, line)
    THEN LET fields == Split(line, ",")
         IN  IF Len(fields) < 2 THEN DefaultSampleRate
             ELSE IF Float(fields[2]) = NotAFloat THEN DefaultSampleRate
                  ELSE Float(fields[2])
    ELSE sr

\* self.sample_rate after the try block of one line
SampleRateAfter(line, sr) ==
    IF Contains(SampleLabel, line)
    THEN LET fields == Split(line, ",")
         IN  IF Len(fields) < 2 THEN sr                    \* IndexError, swallowed
             ELSE IF Float(fields[2]) = NotAFloat THEN sr  \* ValueError, swallowed
                  ELSE Float(fields[2])
    ELSE sr

\* metadata after the try block of one line
MetadataAfter(line, md) ==
    IF Contains(SampleLabel, line)
       /\ Len(Split(line, ",")) >= 2
       /\ Float(Split(line, ",")[2]) # NotAFloat
    THEN {<<"sample_rate", Float(Split(line, ",")[2])>>}
    ELSE md

\* variant: the loop without its break, so the last matching line wins
RECURSIVE ScanLines_NoBreak(_, _, _, _)
ScanLines_NoBreak(ls, i, sr, md) ==
    IF i > Len(ls)
    THEN [header_line_idx |-> -1, sample_rate |-> sr, metadata |-> md]
    ELSE LET line == Strip(ls[i])
             rest == ScanLines_NoBreak(ls, i + 1, SampleRateAfter(line, sr),
                                       MetadataAfter(line, md))
         IN  IF IsHeader(line) /\ rest.header_line_idx = -1
             THEN [rest EXCEPT !.header_line_idx = i - 1]
             ELSE rest

\* the for loop from line i (1-based here, i - 1 in the code) on
RECURSIVE ScanLines(_, _, _, _)
ScanLines(ls, i, sr, md) ==
    IF i > Len(ls)
    THEN [header_line_idx |-> -1, sample_rate |-> sr, metadata |-> md]
    ELSE LET line == Strip(ls[i])
             sr2 == SampleRateAfter(line, sr)
             md2 == MetadataAfter(line, md)
         IN  IF IsHeader(line)
             THEN [header_line_idx |-> i - 1, sample_rate |-> sr2, metadata |-> md2]
             ELSE ScanLines(ls, i + 1, sr2, md2)

(***************************************************************************)
(* parse_eeg_csv: the table read by pd.read_csv and the channel list.      *)
(***************************************************************************)
\* Column labels pandas gives the header row: the fields of the raw line split
\* on commas, an empty field named "Unnamed: <position>", and a repeated label
\* suffixed with ".<number of earlier occurrences>".  (No label of the line
\* universe ends in ".<digits>", so a suffixed label never meets an existing
\* one.)
RECURSIVE NameFields(_, _)
NameFields(fields, i) ==
    IF i > Len(fields) THEN <<>>
    ELSE <<IF fields[i] = "" THEN "Unnamed: " \o ToString(i - 1) ELSE fields[i]>>
         \o NameFields(fields, i + 1)

RECURSIVE DedupNames(_, _)
DedupNames(named, i) ==
    IF i > Len(named) THEN <<>>
    ELSE LET earlier == Cardinality({j \in 1..(i - 1) : named[j] = named[i]})
         IN  <<IF earlier = 0 THEN named[i]
               ELSE named[i] \o "." \o ToString(earlier)>>
             \o DedupNames(named, i + 1)

ReadCsvColumns(header) == DedupNames(NameFields(Split(header, ","), 1), 1)

\* A body row with more fields than the header row: the parser either takes
\* the surplus leading fields as row labels or rejects the row, depending on
\* the rows around it; both outcomes are kept.
Ragged(header, body) ==
    \E i \in 1..Len(body) :
        Len(Split(body[i], ",")) > Len(Split(header, ","))

\* col.replace('**', '').replace(':', '_').strip()
CleanColumn(col) == Strip(Replace(Replace(col, "**", ""), ":", "_"))

\* the list comprehension over self.data.columns
RECURSIVE CleanColumns(_)
CleanColumns(cols) ==
    IF Len(cols) = 0 THEN <<>>
    ELSE <<CleanColumn(Head(cols))>> \o CleanColumns(Tail(cols))

exclude_cols ==
    <<"Trigger", "Time_Offset", "ADC_Status", "ADC_Sequence",
      "Event", "X3_", "Comments", "CMF">>

\* col not in exclude_cols: membership in the list, i.e. equality with an entry
InExcludeCols(col) == \E k \in 1..Len(exclude_cols) : exclude_cols[k] = col

\* col != 'Time' and col not in exclude_cols and col.strip()
KeepColumn(col) == col # "Time" /\ ~InExcludeCols(col) /\ Strip(col) # ""

\* [x for x in seq if keep], keep given per position
RECURSIVE FilterMask(_, _)
FilterMask(seq, keep) ==
    IF Len(seq) = 0 THEN <<>>
    ELSE (IF Head(keep) THEN <<Head(seq)>> ELSE <<>>)
         \o FilterMask(Tail(seq), Tail(keep))

Filter(seq, Keep(_)) == FilterMask(seq, [i \in 1..Len(seq) |-> Keep(seq[i])])

SelectChannels(columns) == Filter(columns, KeepColumn)

(***************************************************************************)
(* categorize_channels                                                     *)
(***************************************************************************)
IsECG(channel) == Contains("X1_LEOG", channel) \/ Contains("X2_REOG", channel)

IsReference(channel) == ~IsECG(channel) /\ Contains("CM", channel)

IsEEG(channel) == ~IsECG(channel) /\ ~Contains("CM", channel)

\* variant: the 'CM' test placed before the ocular-marker test
categorize_channels_CMFirst(chs) ==
    LET IsRef(ch) == Contains("CM", ch)
        IsEcg(ch) == ~Contains("CM", ch) /\ IsECG(ch)
    IN  [eeg |-> Filter(chs, IsEEG),
         ecg |-> Filter(chs, IsEcg),
         reference |-> Filter(chs, IsRef)]

categorize_channels(chs) ==
    [eeg |-> Filter(chs, IsEEG),
     ecg |-> Filter(chs, IsECG),
     reference |-> Filter(chs, IsReference)]

(***************************************************************************)
(* create_interactive_plot                                                 *)
(***************************************************************************)
InSeq(x, seq) == \E k \in 1..Len(seq) : seq[k] = x

Min(a, b) == IF a < b THEN a ELSE b

\* seq[:m] for m >= 0
Take(seq, m) == SubSeq(seq, 1, Min(m, Len(seq)))

\* max_channels is None or [int |-> m]; truth value as in "if max_channels"
Truthy(cap) == cap # None /\ cap.int # 0

Concatenate(cat) == cat.eeg \o cat.ecg \o cat.reference

OrderedChannels(chs) == Concatenate(categorize_channels(chs))

ChannelsToPlot(chs, cap) ==
    IF Truthy(cap)
    THEN Take(OrderedChannels(chs), cap.int)
    ELSE OrderedChannels(chs)

\* The non-ASCII unit prefix of the titles is written "u".
SubplotTitle(ch, cat) ==
    IF InSeq(ch, cat.ecg) THEN ch \o " (mV) - ECG"
    ELSE IF InSeq(ch, cat.reference) THEN ch \o " (Reference)"
         ELSE ch \o " (uV) - EEG"

YAxis(ch, cat) ==
    IF InSeq(ch, cat.ecg)
    THEN [title_text |-> "mV", gridcolor |-> "lightcoral", zerolinecolor |-> "black"]
    ELSE IF InSeq(ch, cat.reference)
         THEN [title_text |-> "uV (Ref)", gridcolor |-> "lightgray", zerolinecolor |-> "black"]
         ELSE [title_text |-> "uV", gridcolor |-> "lightblue", zerolinecolor |-> "blue"]

\* rows 2..n are given matches='x'; then row n is given the title
XAxisMatches(row, n) == IF row \in 2..n THEN "x" ELSE ""

\* variant: the title put on the first row instead of the last
XAxisTitle_FirstRow(row, n) == IF row = 1 THEN "Time (seconds)" ELSE ""

XAxisTitle(row, n) == IF row = n THEN "Time (seconds)" ELSE ""

XAxis(row, n) ==
    [matches |-> XAxisMatches(row, n), title_text |-> XAxisTitle(row, n)]

Trace(i, channel) ==
    [name |-> channel, row |-> i + 1, color |-> i % PaletteLen]

Figure(to_plot, cat, n_all, sr) ==
    LET n == Len(to_plot)
    IN  [rows |-> n,
         subplot_titles |-> [r \in 1..n |-> SubplotTitle(to_plot[r], cat)],
         traces |-> [r \in 1..n |-> Trace(r - 1, to_plot[r])],
         yaxes |-> [r \in 1..n |-> YAxis(to_plot[r], cat)],
         xaxes |-> [r \in 1..n |-> XAxis(r, n)],
         height |-> PanelHeight * n + HeightMargin,
         dragmode |-> "pan",
         title |-> [n_channels |-> n_all, sample_rate |-> sr]]

\* variant: no check for an empty selection
create_interactive_plot_NoEmptyCheck(cap) ==
    LET PlotOf(to_plot) ==
            IF Len(to_plot) > 0 /\ ~InSeq("Time", data.columns)
            THEN [raised |-> "KeyError: 'Time'", fig |-> None]
            ELSE [raised |-> "",
                  fig |-> Figure(to_plot, categorize_channels(channels),
                                 Len(channels), sample_rate)]
    IN  PlotOf(ChannelsToPlot(channels, cap))

\* Outcome of create_interactive_plot(max_channels=cap) on the current object:
\* the exception it raises ("" if none) and the figure it returns.
PlotChannels(to_plot) ==
    IF Len(to_plot) = 0
    THEN [raised |-> "ValueError: No valid channels found to plot", fig |-> None]
    ELSE IF ~InSeq("Time", data.columns)      \* self.data['Time']
         THEN [raised |-> "KeyError: 'Time'", fig |-> None]
         ELSE [raised |-> "",
               fig |-> Figure(to_plot, categorize_channels(channels),
                              Len(channels), sample_rate)]

create_interactive_plot(cap) == PlotChannels(ChannelsToPlot(channels, cap))

(***************************************************************************)
(* update_output, the selection callback of create_dash_app.  An event is  *)
(* None (JSON null) or a dict, modelled as a function of its keys.         *)
(***************************************************************************)
EmptyDict == [k \in {} |-> 0]

NoValue == "<None>"     \* a Python function returning without a value

\* f"{x:.2f}" for a whole number of seconds
Fmt2(x) == ToString(x) \o ".00"

\* The en dash of the message is written "-".
update_output(ev) ==
    IF ev = None \/ DOMAIN ev = {}
    THEN "No region selected."
    ELSE IF "range" \in DOMAIN ev /\ "x" \in DOMAIN ev.range
         THEN LET xmin == ev.range.x[1]
                  xmax == ev.range.x[2]
              IN  "Selected time window: " \o Fmt2(xmin) \o "-"
                  \o Fmt2(xmax) \o " seconds"
         ELSE NoValue

\* null, {}, a non-empty event without a range, a range without x, and two
\* events with range.x
SelectionEvents ==
    {None, EmptyDict, [points |-> <<>>], [range |-> [y |-> <<0, 1>>]],
     [range |-> [x |-> <<1, 2>>]],
     [points |-> <<>>, range |-> [x |-> <<0, 12>>]]}

Caps == {None} \cup { [int |-> m] : m \in 0..MaxCap }

(***************************************************************************)
(* The state machine.                                                      *)
(***************************************************************************)
Init ==
    /\ lines \in Files
    /\ pc = "constructed"
    /\ data = None
    /\ channels = <<>>
    /\ sample_rate = DefaultSampleRate
    /\ metadata = {}
    /\ header_line_idx = -1
    /\ skiprows = -1
    /\ raised = ""
    /\ plot = None
    /\ app = None
    /\ builds = 0
    /\ output = NoValue
    /\ calls = 0
    /\ op = "init"
    /\ max_channels = None
    /\ selected_data = None

\* pd.read_csv(skiprows=idx) and the statements after it
LoadTable(idx) ==
    LET header == lines[idx + 1]
        body == SubSeq(lines, idx + 2, Len(lines))
    IN  /\ skiprows' = idx
        /\ \/ /\ Ragged(header, body)
              /\ raised' = "ParserError"
              /\ pc' = "parse_failed"
              /\ UNCHANGED <<data, channels>>
           \/ /\ raised' = ""
              /\ pc' = "parsed"
              /\ data' = [columns |-> CleanColumns(ReadCsvColumns(header)),
                          body |-> body]
              /\ channels' = SelectChannels(data'.columns)

\* the statements of parse_eeg_csv after its scan
AfterScan(scan) ==
    /\ sample_rate' = scan.sample_rate
    /\ metadata' = scan.metadata
    /\ header_line_idx' = scan.header_line_idx
    /\ IF scan.header_line_idx = -1
       THEN /\ raised' = "ValueError: Could not find header line starting with 'Time'"
            /\ pc' = "parse_failed"
            /\ UNCHANGED <<data, channels, skiprows>>
       ELSE LoadTable(scan.header_line_idx)

\* plotter.parse_eeg_csv()
ParseEEGCsv ==
    /\ pc = "constructed"
    /\ AfterScan(ScanLines(lines, 1, sample_rate, {}))
    /\ op' = "parse"
    /\ UNCHANGED <<lines, plot, app, builds, output, calls, max_channels,
                   selected_data>>

\* a caller's plotter.create_interactive_plot(max_channels) after a load,
\* successful or not
CreateInteractivePlot(cap) ==
    /\ pc \in {"parsed", "parse_failed"}
    /\ LET r == create_interactive_plot(cap)
       IN  /\ raised' = r.raised
           /\ plot' = r.fig
    /\ op' = "plot"
    /\ max_channels' = cap
    /\ UNCHANGED <<pc, lines, data, channels, sample_rate, metadata,
                   header_line_idx, skiprows, app, builds, output, calls,
                   selected_data>>

\* plotter.create_dash_app(), as main calls it: right after a successful load
CreateDashApp ==
    /\ pc = "parsed"
    /\ op = "parse"
    /\ LET r == create_interactive_plot([int |-> DefaultMaxChannels])
       IN  /\ raised' = r.raised
           /\ IF r.raised = ""
              THEN /\ app' = [figure |-> r.fig]
                   /\ builds' = builds + 1
                   /\ pc' = "app"
              ELSE /\ pc' = "app_failed"
                   /\ UNCHANGED <<app, builds>>
    /\ op' = "app"
    /\ max_channels' = [int |-> DefaultMaxChannels]
    /\ UNCHANGED <<lines, data, channels, sample_rate, metadata,
                   header_line_idx, skiprows, plot, output, calls,
                   selected_data>>

\* variant: the callback builds the figure again for every event
UpdateOutput_Rebuilds(ev) ==
    /\ pc = "app"
    /\ calls < MaxCalls
    /\ output' = update_output(ev)
    /\ selected_data' = ev
    /\ calls' = calls + 1
    /\ op' = "callback"
    /\ app' = [figure |-> create_interactive_plot([int |-> DefaultMaxChannels]).fig]
    /\ builds' = builds + 1
    /\ UNCHANGED <<pc, lines, data, channels, sample_rate, metadata,
                   header_line_idx, skiprows, raised, plot, max_channels>>

\* the host dispatching one selectedData event to update_output
UpdateOutput(ev) ==
    /\ pc = "app"
    /\ calls < MaxCalls
    /\ output' = update_output(ev)
    /\ selected_data' = ev
    /\ calls' = calls + 1
    /\ op' = "callback"
    /\ UNCHANGED <<pc, lines, data, channels, sample_rate, metadata,
                   header_line_idx, skiprows, raised, plot, app, builds,
                   max_channels>>

Next ==
    \/ ParseEEGCsv
    \/ \E cap \in Caps : CreateInteractivePlot(cap)
    \/ CreateDashApp
    \/ \E ev \in SelectionEvents : UpdateOutput(ev)

Spec == Init /\ [][Next]_vars

(***************************************************************************)
(* Properties of the load: header discovery, sample rate, failure.         *)
(***************************************************************************)
\* the header predicate of the specification, on one raw line
StartsWithTime(raw) ==
    LET t == Strip(raw)
    IN  (Len(t) >= 5 /\ SubSeq(t, 1, 5) = "Time,")
        \/ (Len(t) >= 5 /\ SubSeq(t, 1, 5) = "Time\t")

HeaderLines == {i \in 1..Len(lines) : StartsWithTime(lines[i])}

Least(S) == CHOOSE i \in S : \A j \in S : i <= j

Greatest(S) == CHOOSE i \in S : \A j \in S : j <= i

FirstHeader == Least(HeaderLines)

Parsed == pc \in {"parsed", "app", "app_failed"}

\* C1: once parse_eeg_csv has run on a file with at least one line whose
\* trimmed text starts with "Time," or "Time<TAB>", the header index is the
\* zero-based index of the first such line, read_csv is told to skip exactly
\* that many lines, and the table's rows are the lines after that line.
C1_HeaderIsFirstMatch ==
    (pc # "constructed" /\ HeaderLines # {}) =>
        /\ header_line_idx = FirstHeader - 1
        /\ skiprows = FirstHeader - 1
        /\ Parsed => /\ data.columns[1] = "Time"
                        \/ StartsWith(data.columns[1], "Time\t")
                     /\ data.body = SubSeq(lines, FirstHeader + 1, Len(lines))

\* a load whose header is not the first line and is followed by another
\* matching line
C1_Witness ==
    /\ pc = "parsed"
    /\ header_line_idx >= 1
    /\ \E j \in HeaderLines : j > header_line_idx + 1

\* C6: once parse_eeg_csv has run on a file with no line matching the header
\* predicate, the load has failed, data is still None, the channel list is
\* still empty, read_csv was never called, and no figure or app exists.
C6_NoHeaderAborts ==
    (pc # "constructed" /\ HeaderLines = {}) =>
        /\ pc = "parse_failed"
        /\ header_line_idx = -1
        /\ data = None
        /\ channels = <<>>
        /\ skiprows = -1
        /\ plot = None
        /\ app = None
        /\ op = "parse" =>
             raised = "ValueError: Could not find header line starting with 'Time'"

\* a failed load of a non-empty file, all of whose lines were scanned
C6_Witness ==
    /\ pc = "parse_failed"
    /\ op = "parse"
    /\ HeaderLines = {}
    /\ Len(lines) >= 2
    /\ sample_rate # DefaultSampleRate

\* the lines the scan visits: up to and including the first header line
ScannedLines == 1..(IF HeaderLines = {} THEN Len(lines) ELSE FirstHeader)

WellFormedRate(raw) ==
    LET t == Strip(raw)
    IN  /\ Contains(SampleLabel, t)
        /\ Len(Split(t, ",")) >= 2
        /\ Float(Split(t, ",")[2]) # NotAFloat

MalformedRate(raw) == Contains(SampleLabel, Strip(raw)) /\ ~WellFormedRate(raw)

WellFormedScanned == {i \in ScannedLines : WellFormedRate(lines[i])}

LastWellFormed == Greatest(WellFormedScanned)

\* the rate a set of well-formed scanned lines leaves behind
RateAfter(wellFormed) ==
    IF wellFormed = {} THEN 200
    ELSE Float(Split(Strip(lines[Greatest(wellFormed)]), ",")[2])

\* C7: once parse_eeg_csv has run, sample_rate is the number in the second
\* comma-separated field of the last well-formed Sample_Frequency_(Hz) line
\* among the scanned lines, or 200 if there is none; a malformed one changes
\* nothing, and the scan raises only when no header line exists.
C7_SampleRate ==
    pc # "constructed" =>
        /\ sample_rate = RateAfter(WellFormedScanned)
        /\ (op = "parse" /\ HeaderLines # {}) => raised \in {"", "ParserError"}

\* a load where a malformed rate line follows a well-formed one
C7_Witness ==
    /\ pc = "parsed"
    /\ WellFormedScanned # {}
    /\ \E i \in ScannedLines : i > LastWellFormed /\ MalformedRate(lines[i])
    /\ sample_rate = 256

(***************************************************************************)
(* Properties of the channel list and its classification.                  *)
(***************************************************************************)
ExclusionFragments ==
    {"Trigger", "Time_Offset", "ADC_Status", "ADC_Sequence", "Event", "X3_",
     "Comments", "CMF"}

HasExcludedFragment(col) == \E frag \in ExclusionFragments : Contains(frag, col)

InNoList(col, cat) ==
    /\ ~InSeq(col, cat.eeg)
    /\ ~InSeq(col, cat.ecg)
    /\ ~InSeq(col, cat.reference)

DroppedIfExcluded(columns, cat) ==
    \A i \in 1..Len(columns) :
        (Strip(columns[i]) = "" \/ HasExcludedFragment(columns[i])) =>
            InNoList(columns[i], cat)

\* C2: after a load, a column whose trimmed normalized name is empty or
\* contains a fragment of the exclusion set is in none of the EEG, ECG and
\* Reference lists.
C2_ExcludedByFragment ==
    Parsed => DroppedIfExcluded(data.columns, categorize_channels(channels))

\* the category the priority rules give one retained name
CategoryOf(ch) ==
    IF Contains("X1_LEOG", ch) \/ Contains("X2_REOG", ch) THEN "ecg"
    ELSE IF Contains("CM", ch) THEN "reference"
         ELSE "eeg"

\* list keeps the relative order its members have in chs
KeepsOrder(list, chs) ==
    \A a \in 1..Len(list) : \A b \in 1..Len(list) :
        a < b => \E i \in 1..Len(chs) : \E j \in 1..Len(chs) :
                     i < j /\ chs[i] = list[a] /\ chs[j] = list[b]

IsPartition(cat, chs) ==
    /\ \A i \in 1..Len(chs) :
           /\ InSeq(chs[i], cat.ecg) <=> CategoryOf(chs[i]) = "ecg"
           /\ InSeq(chs[i], cat.reference) <=> CategoryOf(chs[i]) = "reference"
           /\ InSeq(chs[i], cat.eeg) <=> CategoryOf(chs[i]) = "eeg"
    /\ Len(cat.eeg) + Len(cat.ecg) + Len(cat.reference) = Len(chs)
    /\ \A k \in 1..Len(cat.eeg) : InSeq(cat.eeg[k], chs)
    /\ \A k \in 1..Len(cat.ecg) : InSeq(cat.ecg[k], chs)
    /\ \A k \in 1..Len(cat.reference) : InSeq(cat.reference[k], chs)
    /\ KeepsOrder(cat.eeg, chs)
    /\ KeepsOrder(cat.ecg, chs)
    /\ KeepsOrder(cat.reference, chs)

\* C5: after a load, every retained channel is in exactly the list its
\* first-matching rule names (ocular markers, then CM, then EEG) and in no
\* other, the three lists hold nothing else, and each keeps column order.
C5_Partition == Parsed => IsPartition(categorize_channels(channels), channels)

\* a load whose channels fall in all three lists, one of them matching both
\* an ocular marker and CM, with an excluded column in between
C5_Witness ==
    /\ pc = "parsed"
    /\ \E i \in 1..Len(channels) :
           Contains("X2_REOG", channels[i]) /\ Contains("CM", channels[i])
    /\ Cardinality({i \in 1..Len(channels) : CategoryOf(channels[i]) = "eeg"}) >= 2
    /\ \E i \in 1..Len(channels) : CategoryOf(channels[i]) = "reference"
    /\ Len(channels) < Len(data.columns) - 1

(***************************************************************************)
(* Properties of the selection callback.                                   *)
(***************************************************************************)
HasRangeX(ev) ==
    /\ ev # None
    /\ "range" \in DOMAIN ev
    /\ "x" \in DOMAIN ev.range

\* C3: after a callback, the status is "No region selected." if the event is
\* absent or carries no range.x pair, and the "Selected time window" text if
\* it carries one; it is never without a value.
C3_StatusString ==
    op = "callback" =>
        /\ output # NoValue
        /\ IF HasRangeX(selected_data)
           THEN StartsWith(output, "Selected time window: ")
           ELSE output = "No region selected."

\* C10: the app holds one figure, built once when it was created, and no
\* callback changes the figure, the dataset, the channel list or the
\* sample rate.
C10_FigureBuiltOnce ==
    /\ [](pc = "app" => builds = 1 /\ app # None)
    /\ [][calls' # calls =>
            /\ app' = app
            /\ builds' = builds
            /\ plot' = plot
            /\ data' = data
            /\ channels' = channels
            /\ sample_rate' = sample_rate]_vars

\* two callbacks, one with a range and one without, after the app was created
C10_Witness ==
    /\ op = "callback"
    /\ calls >= 2
    /\ builds = 1
    /\ HasRangeX(selected_data)
    /\ app.figure.rows >= 2

(***************************************************************************)
(* Properties of the layout.                                               *)
(***************************************************************************)
Names(fig) == [r \in 1..Len(fig.traces) |-> fig.traces[r].name]

EmptySelectionError == "ValueError: No valid channels found to plot"

\* the first cap entries of the ordered channel list, all of them for None
FirstOf(ordered, cap) == IF cap = None THEN ordered ELSE Take(ordered, cap.int)

SelectsPrefix(ordered, cap) ==
    IF plot # None
    THEN /\ Names(plot) = FirstOf(ordered, cap)
         /\ cap # None => plot.rows = Min(cap.int, Len(ordered))
    ELSE raised = EmptySelectionError => FirstOf(ordered, cap) = <<>>

\* C4: after create_interactive_plot(max_channels) on a loaded plotter, the
\* selected channels are the first max_channels entries of EEG + ECG +
\* Reference for an integer cap >= 0, and all of them for a null cap.
C4_CapSelectsPrefix ==
    (op = "plot" /\ pc = "parsed") =>
        SelectsPrefix(OrderedChannels(channels), max_channels)

PanelsOfLen(fig, selected, n) ==
    /\ n >= 1
    /\ fig.rows = n
    /\ Len(fig.traces) = n
    /\ Len(fig.xaxes) = n
    /\ Names(fig) = selected
    /\ \A r \in 1..n : fig.traces[r].row = r
    /\ \A r \in 2..n : fig.xaxes[r].matches = "x"
    /\ \A r \in 1..n : (fig.xaxes[r].title_text = "Time (seconds)") <=> (r = n)

PanelsOK(fig, selected) == PanelsOfLen(fig, selected, Len(selected))

\* C9: every figure has one panel per selected channel, in selection order
\* with row index equal to the 1-based position, rows 2..n track the x-axis
\* of panel 1, and "Time (seconds)" is on row n and on no other row.
C9_PanelLayout ==
    /\ (op = "plot" /\ plot # None) =>
           PanelsOK(plot, ChannelsToPlot(channels, max_channels))
    /\ plot # None => PanelsOK(plot, Names(plot))
    /\ app # None =>
           PanelsOK(app.figure,
                    ChannelsToPlot(channels, [int |-> DefaultMaxChannels]))

\* a figure of several panels from a call whose cap cut the selection
C9_Witness ==
    /\ op = "plot"
    /\ plot # None
    /\ plot.rows >= 2
    /\ plot.rows < Len(channels)

====
